---- MODULE Spec2Model ----
(***************************************************************************)
(* FrameBufferWriter of kernel_with_bootloader/src/writer.rs: a text       *)
(* console that blits glyph rasters into a raw framebuffer, with line      *)
(* wrap, scrolling and a two-symbol colour escape syntax.                  *)
(*                                                                         *)
(* The writer's fields are the variables; every public operation (new,     *)
(* print, clear, write_str) is one action that runs the whole call.  The   *)
(* private methods are operators on a writer record, translated one to     *)
(* one.  A Rust panic (slice index out of range, arithmetic overflow in a  *)
(* build with overflow checks) stops the call where it happens and sets    *)
(* panicked: the kernel does not continue after it.                        *)
(*                                                                         *)
(* usize arithmetic: in a build without overflow checks a subtraction      *)
(* below zero wraps to v + 2^64.  Such a value is represented here by the  *)
(* negative integer v itself: +, - and * on representatives agree with     *)
(* the wrapped arithmetic modulo 2^64, and an unsigned comparison treats   *)
(* a negative representative as larger than every screen quantity.         *)
(*                                                                         *)
(* The glyph cell is scaled down (the font constants live in               *)
(* constants.rs, the rasters in the noto_sans_mono_bitmap crate); the      *)
(* layout code only uses the cell's width and height.                      *)
(***************************************************************************)
EXTENDS Integers, Sequences, FiniteSets

VARIABLES
    framebuffer,      \* self.framebuffer: sequence of bytes, byte i at [i + 1]
    info,             \* self.info: width, height, stride, bytes_per_pixel
    x_pos,            \* self.x_pos
    y_pos,            \* self.y_pos
    current_color,    \* self.current_color: <<c0, c1, c2>>
    constructed,      \* FALSE until FrameBufferWriter::new has returned
    panicked,         \* a call has panicked: the kernel has stopped
    overflow_checks,  \* build profile: TRUE = arithmetic overflow panics
    ops,              \* number of calls made so far (bounded by MaxOps)
    hist              \* history of the last call (not program state)

vars == <<framebuffer, info, x_pos, y_pos, current_color, constructed,
          panicked, overflow_checks, ops, hist>>

----------------------------------------------------------------------------
(* Bounds of the model *)

\* longest text passed to one print / write_str call (scenarios aside)
MaxLen == 2
\* number of calls after construction
MaxOps == 2

----------------------------------------------------------------------------
(* Constants of writer.rs *)

LINE_SPACING == 2
LETTER_SPACING == 0
BORDER_PADDING == 1
COLOR_BLUE == <<255, 0, 0>>
COLOR_WHITE == <<255, 255, 255>>
tab_size == 4

(* Constants of constants.rs (font_constants), scaled down *)
CHAR_RASTER_HEIGHT == 2
CHAR_RASTER_WIDTH == 2
BACKUP_CHAR == "BACKUP"

----------------------------------------------------------------------------
(* Characters *)

Backslash == "\\"
Newline == "\n"
Return == "\r"
Tab == "\t"
Space == " "

\* characters for which get_raster returns Some
RasterChars == {"A", "B", "c", "r", Space, Backslash, BACKUP_CHAR}

\* intensity of pixel (row, col) of the raster of c, rows and columns from 0
Intensity(c, row, col) ==
    CASE c = Space -> 0
      [] c = "A" -> IF row = col THEN 255 ELSE IF col > row THEN 128 ELSE 0
      [] c = "B" -> IF row = 0 \/ col = 0 THEN 255 ELSE 128
      [] c = "c" -> IF col = 0 THEN 255 ELSE IF row = 0 THEN 128 ELSE 0
      [] c = "r" -> IF row = 0 THEN 255 ELSE 0
      [] c = Backslash -> IF row = col THEN 255 ELSE 0
      [] OTHER -> 128

\* noto_sans_mono_bitmap::get_raster: the RasterizedChar of c, or None
get_raster(c) ==
    IF c \in RasterChars
    THEN [some |-> TRUE, ch |-> c, width |-> CHAR_RASTER_WIDTH,
          height |-> CHAR_RASTER_HEIGHT]
    ELSE [some |-> FALSE, ch |-> "", width |-> 0, height |-> 0]

\* a lookup that hands the missing raster on instead of the backup glyph
get_char_raster_none(c) == get_raster(c)

get_char_raster(c) ==
    IF get_raster(c).some THEN get_raster(c) ELSE get_raster(BACKUP_CHAR)

----------------------------------------------------------------------------
(* The writer as a record, and the history kept while a call runs *)

line_height == CHAR_RASTER_HEIGHT + LINE_SPACING

width == info.width
height == info.height

\* unsigned a >= b, for b a screen quantity
UGe(a, b) == a < 0 \/ a >= b

Self ==
    [framebuffer |-> framebuffer, x_pos |-> x_pos, y_pos |-> y_pos,
     current_color |-> current_color, panicked |-> panicked,
     events |-> <<>>, scrolls |-> <<>>, off_screen |-> FALSE,
     out_of_buffer |-> FALSE, pixels |-> 0]

Snapshot(w) ==
    [framebuffer |-> w.framebuffer, x_pos |-> w.x_pos, y_pos |-> w.y_pos,
     current_color |-> w.current_color, panicked |-> w.panicked]

Event(w, kind, ch, x, y) ==
    [w EXCEPT !.events = Append(@, [kind |-> kind, ch |-> ch, x |-> x, y |-> y,
                                    color |-> w.current_color])]

Panic(w) == [w EXCEPT !.panicked = TRUE]

----------------------------------------------------------------------------
(* Cursor and layout *)

\* carriage return to column 0, without the border padding
carriage_return_no_padding(w) ==
    IF w.panicked THEN w ELSE [w EXCEPT !.x_pos = 0]

carriage_return(w) ==
    IF w.panicked THEN w ELSE [w EXCEPT !.x_pos = BORDER_PADDING]

\* slice::copy_within(src_start.., 0) followed by [last_line_start..].fill(0)
copy_within(fb, src_start) ==
    [i \in 1..Len(fb) |-> IF i + src_start <= Len(fb) THEN fb[i + src_start] ELSE fb[i]]

fill_from(fb, start) ==
    [i \in 1..Len(fb) |-> IF i > start THEN 0 ELSE fb[i]]

\* scroll_screen without the zero fill of the last line
scroll_screen_no_fill(w) ==
    IF w.panicked THEN w
    ELSE
      LET w0 == Event(w, "scroll", "", w.x_pos, w.y_pos)
          bytes_per_line == info.stride * line_height * info.bytes_per_pixel
          w1 == [w0 EXCEPT !.framebuffer = copy_within(w.framebuffer, bytes_per_line),
                           !.y_pos = @ - line_height]
      IN IF bytes_per_line > Len(w.framebuffer) THEN Panic(w0)
         ELSE [w1 EXCEPT !.scrolls =
                  Append(@, [pre |-> Snapshot(w), post |-> Snapshot(w1)])]

scroll_screen(w) ==
    IF w.panicked THEN w
    ELSE
      LET w0 == Event(w, "scroll", "", w.x_pos, w.y_pos)
          bytes_per_line == info.stride * line_height * info.bytes_per_pixel
          screen_size == Len(w.framebuffer)
      IN
      IF bytes_per_line > screen_size
      THEN Panic(w0)   \* copy_within: range start index out of range
      ELSE
        LET moved == copy_within(w.framebuffer, bytes_per_line)
            last_line_start == screen_size - bytes_per_line
            w1 == [w0 EXCEPT !.framebuffer = fill_from(moved, last_line_start)]
        IN
        IF w.y_pos >= 0 /\ w.y_pos < line_height /\ overflow_checks
        THEN Panic(w1)   \* attempt to subtract with overflow
        ELSE
          LET w2 == [w1 EXCEPT !.y_pos = @ - line_height]
          IN [w2 EXCEPT !.scrolls =
                 Append(@, [pre |-> Snapshot(w), post |-> Snapshot(w2)])]

\* newline that scrolls only when y_pos is beyond the height
newline_scrolls_late(w) ==
    IF w.panicked THEN w
    ELSE
      LET w0 == Event(w, "newline", "", w.x_pos, w.y_pos)
          w1 == [w0 EXCEPT !.y_pos = @ + CHAR_RASTER_HEIGHT + LINE_SPACING]
          w2 == IF w1.y_pos > height THEN scroll_screen(w1) ELSE w1
      IN carriage_return(w2)

newline(w) ==
    IF w.panicked THEN w
    ELSE
      LET w0 == Event(w, "newline", "", w.x_pos, w.y_pos)
          w1 == [w0 EXCEPT !.y_pos = @ + CHAR_RASTER_HEIGHT + LINE_SPACING]
          w2 == IF UGe(w1.y_pos, height) THEN scroll_screen(w1) ELSE w1
      IN carriage_return(w2)

\* clear that forgets to reset y_pos
clear_keeps_y(w) ==
    IF w.panicked THEN w
    ELSE [w EXCEPT !.x_pos = BORDER_PADDING,
                   !.framebuffer = [i \in 1..Len(w.framebuffer) |-> 0]]

clear(w) ==
    IF w.panicked THEN w
    ELSE [w EXCEPT !.x_pos = BORDER_PADDING,
                   !.y_pos = BORDER_PADDING,
                   !.framebuffer = [i \in 1..Len(w.framebuffer) |-> 0]]

----------------------------------------------------------------------------
(* Glyph renderer *)

\* (current_color[k] as u16 * intensity as u16 / 255) as u8
scale(channel, intensity) == (((channel * intensity) % 65536) \div 255) % 256

\* framebuffer[byte_offset..byte_offset + n].copy_from_slice(&color[..n]), n <= 3
copy_from_slice(fb, byte_offset, color, n) ==
    LET b1 == IF n >= 1 THEN [fb EXCEPT ![byte_offset + 1] = color[1]] ELSE fb
        b2 == IF n >= 2 THEN [b1 EXCEPT ![byte_offset + 2] = color[2]] ELSE b1
    IN IF n >= 3 THEN [b2 EXCEPT ![byte_offset + 3] = color[3]] ELSE b2

write_pixel(w, x, y, intensity) ==
    IF w.panicked THEN w
    ELSE
      LET pixel_offset == y * info.stride + x
          color == <<scale(w.current_color[1], intensity),
                     scale(w.current_color[2], intensity),
                     scale(w.current_color[3], intensity)>>
          bytes_per_pixel == info.bytes_per_pixel
          byte_offset == pixel_offset * bytes_per_pixel
          w0 == [w EXCEPT !.pixels = @ + 1,
                          !.off_screen = @ \/ UGe(x, width) \/ UGe(y, height),
                          !.out_of_buffer = @ \/ byte_offset < 0
                              \/ byte_offset + bytes_per_pixel > Len(w.framebuffer)]
      IN
      IF byte_offset < 0 \/ byte_offset + bytes_per_pixel > Len(w.framebuffer)
      THEN Panic(w0)   \* framebuffer[byte_offset..byte_offset + bytes_per_pixel]
      ELSE IF bytes_per_pixel > 3
      THEN Panic(w0)   \* color[..bytes_per_pixel] on a [u8; 3]
      ELSE [w0 EXCEPT !.framebuffer =
               copy_from_slice(w.framebuffer, byte_offset, color, bytes_per_pixel)]

\* a blit that writes every pixel of the cell, the empty ones too
RECURSIVE blit_all(_, _, _)
blit_all(w, rendered_char, k) ==
    IF k >= rendered_char.height * rendered_char.width \/ w.panicked THEN w
    ELSE
      LET y == k \div rendered_char.width
          x == k % rendered_char.width
          byte == Intensity(rendered_char.ch, y, x)
      IN blit_all(write_pixel(w, w.x_pos + x, w.y_pos + y, byte),
                  rendered_char, k + 1)

\* the two nested loops over the raster, k = y * width + x
RECURSIVE blit(_, _, _)
blit(w, rendered_char, k) ==
    IF k >= rendered_char.height * rendered_char.width \/ w.panicked THEN w
    ELSE
      LET y == k \div rendered_char.width
          x == k % rendered_char.width
          byte == Intensity(rendered_char.ch, y, x)
      IN blit(IF byte > 0 THEN write_pixel(w, w.x_pos + x, w.y_pos + y, byte) ELSE w,
              rendered_char, k + 1)

write_rendered_char(w, rendered_char) ==
    IF w.panicked THEN w
    ELSE
      LET w1 == blit(w, rendered_char, 0)
      IN IF w1.panicked THEN w1
         ELSE Event([w1 EXCEPT !.x_pos = @ + rendered_char.width + LETTER_SPACING],
                    "glyph", rendered_char.ch, w.x_pos, w.y_pos)

\* a glyph arm that wraps but never scrolls
write_glyph_no_scroll(w, c) ==
    IF w.panicked THEN w
    ELSE
      LET new_xpos == w.x_pos + CHAR_RASTER_WIDTH
          w1 == IF UGe(new_xpos, width) THEN newline(w) ELSE w
      IN write_rendered_char(w1, get_char_raster(c))

\* the last arm of write_char's match: any character but \n, \r, \t
write_glyph(w, c) ==
    IF w.panicked THEN w
    ELSE
      LET new_xpos == w.x_pos + CHAR_RASTER_WIDTH
          w1 == IF UGe(new_xpos, width) THEN newline(w) ELSE w
          new_ypos == w1.y_pos + CHAR_RASTER_HEIGHT + BORDER_PADDING
          w2 == IF UGe(new_ypos, height) THEN scroll_screen(w1) ELSE w1
      IN write_rendered_char(w2, get_char_raster(c))

\* a tab that moves the cursor by n cells without rendering the spaces
write_spaces_jump(w, n) ==
    [w EXCEPT !.x_pos = @ + n * (CHAR_RASTER_WIDTH + LETTER_SPACING)]

RECURSIVE write_spaces(_, _)
write_spaces(w, n) ==
    IF n = 0 THEN w ELSE write_spaces(write_glyph(w, Space), n - 1)

write_char(w, c) ==
    IF w.panicked THEN w
    ELSE CASE c = Newline -> newline(w)
           [] c = Return -> carriage_return(w)
           [] c = Tab -> write_spaces(w, tab_size)
           [] OTHER -> write_glyph(w, c)

----------------------------------------------------------------------------
(* Escape interpreter and the public operations *)

\* the arm of print's match for a backslash c followed by next
\* an escape arm whose unknown sequence also resets the colour
print_escape_resets(w, c, next) ==
    CASE next = "c" -> [w EXCEPT !.current_color = COLOR_BLUE]
      [] next = "r" -> [w EXCEPT !.current_color = COLOR_WHITE]
      [] OTHER -> write_char([w EXCEPT !.current_color = COLOR_WHITE], c)

print_escape(w, c, next) ==
    CASE next = "c" -> [w EXCEPT !.current_color = COLOR_BLUE]
      [] next = "r" -> [w EXCEPT !.current_color = COLOR_WHITE]
      [] OTHER -> write_char(w, c)

\* the while-let loop of print, i the position of chars.next()
RECURSIVE print_from(_, _, _)
print_from(w, text, i) ==
    IF i > Len(text) \/ w.panicked THEN w
    ELSE
      LET c == text[i]
      IN IF c = Backslash
         THEN IF i + 1 <= Len(text)
              THEN print_from(print_escape(w, c, text[i + 1]), text, i + 2)
              ELSE w
         ELSE print_from(write_char(w, c), text, i + 1)

print(w, text) == print_from(w, text, 1)

\* a write_str that sends its text through the escape interpreter
write_str_escapes(w, s) == print(w, s)

RECURSIVE write_str_from(_, _, _)
write_str_from(w, s, i) ==
    IF i > Len(s) \/ w.panicked THEN w
    ELSE write_str_from(write_char(w, s[i]), s, i + 1)

write_str(w, s) == write_str_from(w, s, 1)

\* FrameBufferWriter::new on the memory of the framebuffer
\* construction that leaves the memory as it was handed over
new_no_clear(memory) ==
    [Self EXCEPT !.framebuffer = memory,
                 !.x_pos = BORDER_PADDING,
                 !.y_pos = BORDER_PADDING,
                 !.current_color = COLOR_WHITE]

new(memory) ==
    clear([Self EXCEPT !.framebuffer = memory,
                       !.x_pos = BORDER_PADDING,
                       !.y_pos = BORDER_PADDING,
                       !.current_color = COLOR_WHITE])

----------------------------------------------------------------------------
(* Inputs *)

Geometry(w, h, stride, bpp, slack) ==
    [width |-> w, height |-> h, stride |-> stride, bytes_per_pixel |-> bpp,
     byte_len |-> stride * h * bpp + slack]

\* geometry consistent with the buffer: every pixel of the screen is in it
Consistent(g) ==
    /\ g.stride >= g.width
    /\ g.byte_len >= g.stride * g.height * g.bytes_per_pixel

\* room for two text lines and one glyph per line
FitsText(g) ==
    /\ g.height >= 2 * line_height
    /\ g.width > BORDER_PADDING + CHAR_RASTER_WIDTH

\* displays that fit text, one for each bytes_per_pixel
Displays ==
    { Geometry(2 * CHAR_RASTER_WIDTH, 2 * line_height, 2 * CHAR_RASTER_WIDTH, 1, 0),
      Geometry(3 * CHAR_RASTER_WIDTH, 2 * line_height + 1, 3 * CHAR_RASTER_WIDTH + 1, 2, 0),
      Geometry(2 * CHAR_RASTER_WIDTH + 1, 2 * line_height + 2, 2 * CHAR_RASTER_WIDTH + 1, 3, 1),
      Geometry(2 * CHAR_RASTER_WIDTH, 2 * line_height, 2 * CHAR_RASTER_WIDTH + 1, 4, 0) }

\* consistent geometries too small for a glyph or for a text line
SmallDisplays ==
    { Geometry(CHAR_RASTER_WIDTH, 2 * line_height, CHAR_RASTER_WIDTH + 1, 1, 0),
      Geometry(2 * CHAR_RASTER_WIDTH, line_height - 1, 2 * CHAR_RASTER_WIDTH, 1, 0),
      Geometry(2 * CHAR_RASTER_WIDTH, line_height, 2 * CHAR_RASTER_WIDTH, 1, 0) }

\* what the memory holds before construction
Memory(g) ==
    { [i \in 1..g.byte_len |-> 0], [i \in 1..g.byte_len |-> (i * 37) % 256] }

\* characters of the texts passed to print
Alphabet == {"A", "c", "r", Space, Backslash, Newline, Return, Tab}

\* characters of the strings passed to write_str
StrAlphabet == {"A", "c", Backslash, Newline, Tab}

\* print("\\cA\\rB") of the spec, an escaped backslash before a directive
\* character, a character without raster, and texts that fill a line and the
\* screen
Scenarios ==
    { <<Backslash, "c", "A", Backslash, "r", "B">>,
      <<Backslash, Backslash, "c">>,
      <<"?">>,
      <<"A", "A", "A">>,
      <<"A", Newline, Newline, "A">> }

Texts == UNION { [1..k -> Alphabet] : k \in 0..MaxLen } \cup Scenarios

Strings == UNION { [1..k -> StrAlphabet] : k \in 0..MaxLen }

----------------------------------------------------------------------------
(* The state machine *)

NoCall(w) ==
    [op |-> "none", text |-> <<>>, pre |-> Snapshot(w), events |-> <<>>,
     scrolls |-> <<>>, off_screen |-> FALSE, out_of_buffer |-> FALSE, pixels |-> 0]

InitWith(geometries) ==
    /\ info \in geometries
    /\ framebuffer \in Memory(info)
    /\ x_pos = 0
    /\ y_pos = 0
    /\ current_color = <<0, 0, 0>>
    /\ constructed = FALSE
    /\ panicked = FALSE
    /\ overflow_checks \in BOOLEAN
    /\ ops = 0
    /\ hist = NoCall(Self)

Init == InitWith(Displays)

InitAny == InitWith(Displays \cup SmallDisplays)

\* the call op(text) has taken the writer from Self to w
Return_(w, op, text) ==
    /\ framebuffer' = w.framebuffer
    /\ x_pos' = w.x_pos
    /\ y_pos' = w.y_pos
    /\ current_color' = w.current_color
    /\ panicked' = w.panicked
    /\ hist' = [op |-> op, text |-> text, pre |-> Snapshot(Self),
                events |-> w.events, scrolls |-> w.scrolls,
                off_screen |-> w.off_screen, out_of_buffer |-> w.out_of_buffer,
                pixels |-> w.pixels]
    /\ UNCHANGED <<info, overflow_checks>>

CallNew ==
    /\ ~constructed
    /\ constructed' = TRUE
    /\ \E w \in {new(framebuffer)} : Return_(w, "new", <<>>)
    /\ UNCHANGED ops

Ready == constructed /\ ~panicked /\ ops < MaxOps

CallPrint ==
    /\ Ready
    /\ \E text \in Texts : \E w \in {print(Self, text)} : Return_(w, "print", text)
    /\ ops' = ops + 1
    /\ UNCHANGED constructed

CallClear ==
    /\ Ready
    /\ \E w \in {clear(Self)} : Return_(w, "clear", <<>>)
    /\ ops' = ops + 1
    /\ UNCHANGED constructed

CallWriteStr ==
    /\ Ready
    /\ \E s \in Strings : \E w \in {write_str(Self, s)} : Return_(w, "write_str", s)
    /\ ops' = ops + 1
    /\ UNCHANGED constructed

Next == CallNew \/ CallPrint \/ CallClear \/ CallWriteStr

Spec == Init /\ [][Next]_vars

SpecAny == InitAny /\ [][Next]_vars

TypeOK ==
    /\ constructed \in BOOLEAN
    /\ panicked \in BOOLEAN
    /\ Len(framebuffer) = info.byte_len
    /\ \A i \in 1..Len(framebuffer) : framebuffer[i] \in 0..255
    /\ current_color \in {COLOR_WHITE, COLOR_BLUE, <<0, 0, 0>>}

----------------------------------------------------------------------------
(* Claims *)

Called(op) == hist.op = op
Printed(text) == hist.op = "print" /\ hist.text = text

\* C1: for every framebuffer whose geometry is consistent with its buffer,
\* every pixel write made while blitting a glyph targets a pixel (x, y) of the
\* screen (x < width, y < height) whose bytes lie inside the buffer.
\* Stated over all consistent geometries (SpecAny).
C1_PixelWritesInBounds ==
    Consistent(info) => ~hist.off_screen /\ ~hist.out_of_buffer

NumEvents(kind) == Cardinality({k \in 1..Len(hist.events) : hist.events[k].kind = kind})

AllZero(fb) == \A i \in 1..Len(fb) : fb[i] = 0

\* what scroll_screen promises of one call, from s.pre to s.post
Scrolled(s) ==
    LET bytes_per_line == info.stride * line_height * info.bytes_per_pixel
        row_bytes == info.stride * info.bytes_per_pixel
        len == Len(s.pre.framebuffer)
    IN /\ Len(s.post.framebuffer) = len
       /\ \A i \in 0..(len - 1) :
             s.post.framebuffer[i + 1] =
                 IF i < len - bytes_per_line
                 THEN s.pre.framebuffer[i + bytes_per_line + 1] ELSE 0
       /\ \A r \in 0..(info.height - line_height - 1) : \A j \in 1..row_bytes :
             s.post.framebuffer[r * row_bytes + j] =
                 s.pre.framebuffer[(r + line_height) * row_bytes + j]
       /\ s.post.y_pos >= 0
       /\ s.post.y_pos = s.pre.y_pos - line_height
       /\ s.post.x_pos = s.pre.x_pos
       /\ s.post.current_color = s.pre.current_color
       /\ ~s.post.panicked

C3_ClearZeroesAndIsIdempotent ==
    Called("clear") =>
        /\ AllZero(framebuffer)
        /\ Len(framebuffer) = Len(hist.pre.framebuffer)
        /\ x_pos = BORDER_PADDING
        /\ y_pos = BORDER_PADDING
        /\ Snapshot(clear(Self)) = Snapshot(Self)

\* clear of a screen with text on it and the cursor moved in both directions
C3_Witness ==
    /\ Called("clear")
    /\ ~AllZero(hist.pre.framebuffer)
    /\ hist.pre.x_pos # BORDER_PADDING
    /\ hist.pre.y_pos # BORDER_PADDING

----------------------------------------------------------------------------
(* Helpers of the claims about print *)

\* the writer before the last call
Pre ==
    [framebuffer |-> hist.pre.framebuffer, x_pos |-> hist.pre.x_pos,
     y_pos |-> hist.pre.y_pos, current_color |-> hist.pre.current_color,
     panicked |-> hist.pre.panicked,
     events |-> <<>>, scrolls |-> <<>>, off_screen |-> FALSE,
     out_of_buffer |-> FALSE, pixels |-> 0]

IsGlyph(e) == e.kind = "glyph"
Glyphs == SelectSeq(hist.events, IsGlyph)

\* the last call left framebuffer and cursor alone
SameScreen ==
    /\ framebuffer = hist.pre.framebuffer
    /\ x_pos = hist.pre.x_pos
    /\ y_pos = hist.pre.y_pos

\* the colours in which print(text) is to render its glyphs, one per glyph:
\* the colour of the last directive before the glyph, or the one print found
RECURSIVE GlyphColors(_, _, _)
GlyphColors(text, i, color) ==
    IF i > Len(text) THEN <<>>
    ELSE IF text[i] = Backslash
    THEN IF i = Len(text) THEN <<>>
         ELSE IF text[i + 1] = "c" THEN GlyphColors(text, i + 2, COLOR_BLUE)
         ELSE IF text[i + 1] = "r" THEN GlyphColors(text, i + 2, COLOR_WHITE)
         ELSE <<color>> \o GlyphColors(text, i + 2, color)
    ELSE IF text[i] \in {Newline, Return} THEN GlyphColors(text, i + 1, color)
    ELSE IF text[i] = Tab
    THEN <<color, color, color, color>> \o GlyphColors(text, i + 1, color)
    ELSE <<color>> \o GlyphColors(text, i + 1, color)

EscapesSetColor ==
    /\ Printed(<<Backslash, "c">>) =>
          current_color = COLOR_BLUE /\ hist.events = <<>> /\ SameScreen
    /\ Printed(<<Backslash, "r">>) =>
          current_color = COLOR_WHITE /\ hist.events = <<>> /\ SameScreen
    /\ Called("print") =>
          [k \in 1..Len(Glyphs) |-> Glyphs[k].color] =
              GlyphColors(hist.text, 1, hist.pre.current_color)
    /\ Printed(<<Backslash, "c", "A", Backslash, "r", "B">>) =>
          [k \in 1..Len(Glyphs) |-> <<Glyphs[k].ch, Glyphs[k].color>>] =
              << <<"A", COLOR_BLUE>>, <<"B", COLOR_WHITE>> >>

\* C4: in print, backslash c sets the accent colour and backslash r the normal
\* colour, without rendering a glyph or moving the cursor, and every glyph
\* rendered afterwards, up to the next directive, uses that colour;
\* print of backslash, c, A, backslash, r, B renders exactly A in the accent
\* colour and B in the normal colour.
C4_EscapesSetColor == EscapesSetColor

\* the same, for the calls that return
C4_UnlessPanicked == panicked \/ EscapesSetColor

NotDirective == Alphabet \ {"c", "r"}

UnknownEscape ==
    \A d \in NotDirective :
        Printed(<<Backslash, d>>) =>
            /\ Len(Glyphs) = 1
            /\ Glyphs[1].ch = Backslash
            /\ current_color = hist.pre.current_color
            /\ Snapshot(Self) = Snapshot(write_str(Pre, <<Backslash>>))

\* C5: in print, a backslash followed by a character other than c or r
\* renders exactly one backslash glyph; the following character is neither
\* rendered nor interpreted, and the colour is unchanged: the writer ends as
\* after rendering the one backslash.
C5_UnknownEscapeRendersBackslash == UnknownEscape

C5_UnlessPanicked == panicked \/ UnknownEscape

\* characters whose rendering takes the glyph path, with a raster of their own
Printable == {"A", "c", "r", Space}

\* the last call rendered the single character ch
Rendered(ch) ==
    \/ Printed(<<ch>>) /\ ch # Backslash
    \/ Called("write_str") /\ hist.text = <<ch>>

WrapBeforeGlyph ==
    /\ \A ch \in Printable \cup {Backslash, "?"} :
          Rendered(ch) /\ hist.pre.x_pos + CHAR_RASTER_WIDTH > width =>
              /\ NumEvents("newline") = 1
              /\ hist.events[1].kind = "newline"
              /\ Len(Glyphs) = 1
              /\ Glyphs[1].x = BORDER_PADDING
              /\ x_pos = BORDER_PADDING + CHAR_RASTER_WIDTH + LETTER_SPACING
    /\ \A k \in 1..Len(Glyphs) : Glyphs[k].x + CHAR_RASTER_WIDTH <= width

C6_UnlessPanicked == panicked \/ WrapBeforeGlyph

\* C7: rendering a printable character with a known raster, when no line wrap
\* is triggered, advances x_pos by exactly raster.width + LETTER_SPACING and
\* leaves y_pos unchanged.
C7_GlyphAdvancesCursor ==
    \A ch \in Printable :
        Rendered(ch) /\ NumEvents("newline") = 0 =>
            /\ x_pos = hist.pre.x_pos + get_raster(ch).width + LETTER_SPACING
            /\ y_pos = hist.pre.y_pos

\* the same, for the calls that return without a forced scroll
C7_UnlessPanickedOrScrolled ==
    panicked \/ NumEvents("scroll") > 0 \/ C7_GlyphAdvancesCursor

\* under Spec a call panics only in write_pixel, with four bytes per pixel
PanicsOnlyWithFourBytes ==
    panicked => info.bytes_per_pixel > 3 /\ hist.pixels > 0 /\ NumEvents("scroll") = Len(hist.scrolls)

\* the last call rendered the single control character ch
Control(ch) == (Called("print") \/ Called("write_str")) /\ hist.text = <<ch>>

Usable == constructed /\ ~panicked

C9_CarriageReturnOnlyResetsX ==
    /\ Control(Return) =>
          /\ x_pos = BORDER_PADDING
          /\ y_pos = hist.pre.y_pos
          /\ framebuffer = hist.pre.framebuffer
          /\ current_color = hist.pre.current_color
          /\ hist.events = <<>>
    /\ Usable =>
          /\ Snapshot(print(Self, <<Return>>)) =
                 [Snapshot(Self) EXCEPT !.x_pos = BORDER_PADDING]
          /\ Snapshot(write_str(Self, <<Return>>)) =
                 [Snapshot(Self) EXCEPT !.x_pos = BORDER_PADDING]

\* a carriage return on a second line with text drawn, cursor mid-line
C9_Witness ==
    /\ Control(Return)
    /\ hist.pre.x_pos # BORDER_PADDING
    /\ hist.pre.y_pos # BORDER_PADDING
    /\ ~AllZero(framebuffer)

FourSpaces == <<Space, Space, Space, Space>>

\* C10: from every reachable state, printing a tab leaves the writer in the
\* state (framebuffer, x_pos, y_pos, colour) that printing four spaces from
\* that state leaves it in, also across a line wrap or a scroll.
C10_TabIsFourSpaces ==
    /\ Control(Tab) =>
          Snapshot(Self) =
              Snapshot(IF Called("print") THEN print(Pre, FourSpaces)
                       ELSE write_str(Pre, FourSpaces))
    /\ Usable =>
          /\ Snapshot(print(Self, <<Tab>>)) = Snapshot(print(Self, FourSpaces))
          /\ Snapshot(write_str(Self, <<Tab>>)) = Snapshot(write_str(Self, FourSpaces))

\* a tab printed on a drawn screen that wraps and scrolls
C10_Witness ==
    /\ Control(Tab)
    /\ NumEvents("newline") > 0
    /\ NumEvents("scroll") > 0
    /\ Len(Glyphs) = 4
    /\ ~AllZero(hist.pre.framebuffer)
    /\ framebuffer # hist.pre.framebuffer

----------------------------------------------------------------------------
(* Claims about faults and pixel writes *)

BytesPerLine == info.stride * line_height * info.bytes_per_pixel

\* C11: scroll_screen is guarded by bytes_per_line <= buffer length: a scroll
\* triggered on a framebuffer shorter than one text line does not fault.
C11_ScrollGuarded ==
    BytesPerLine > Len(framebuffer) /\ NumEvents("scroll") > 0 => ~panicked

\* on the framebuffers of at least one text line no call faults in copy_within:
\* every scroll either returns or stops at the y_pos subtraction
C11_FaultsOnlyWhenShort ==
    BytesPerLine <= Len(framebuffer) /\ NumEvents("scroll") > Len(hist.scrolls) =>
        overflow_checks /\ panicked /\ hist.events[Len(hist.events)].y < line_height

\* intensities tried on write_pixel
Intensities == {1, 128, 255}

\* write_pixel(w, x, y, i) has returned v, having written the leading
\* bytes_per_pixel channels of the scaled colour at byte_offset and nothing else
PixelWritten(w, x, y, i, v) ==
    LET byte_offset == (y * info.stride + x) * info.bytes_per_pixel
    IN /\ ~v.panicked
       /\ Len(v.framebuffer) = Len(w.framebuffer)
       /\ \A k \in 1..3 :
             /\ w.current_color[k] * i < 65536
             /\ (w.current_color[k] * i) \div 255 <= w.current_color[k]
       /\ \A j \in 1..Len(w.framebuffer) :
             v.framebuffer[j] =
                 IF j > byte_offset /\ j <= byte_offset + info.bytes_per_pixel
                 THEN (w.current_color[j - byte_offset] * i) \div 255
                 ELSE w.framebuffer[j]
       /\ v.x_pos = w.x_pos /\ v.y_pos = w.y_pos
       /\ v.current_color = w.current_color

PixelsWritten ==
    Usable =>
        \A x \in 0..(width - 1) : \A y \in 0..(height - 1) : \A i \in Intensities :
            PixelWritten(Self, x, y, i, write_pixel(Self, x, y, i))

\* C12: for every nonzero intensity and every bytes_per_pixel from 1 to 4,
\* write_pixel writes exactly bytes_per_pixel bytes at byte_offset, the leading
\* channels of the colour scaled by intensity / 255 (no 16-bit overflow, no
\* result above the channel), and changes no other byte.
C12_WritePixelWritesScaledColor == PixelsWritten

\* the same for one to three bytes per pixel
C12_UpToThreeBytes == info.bytes_per_pixel > 3 \/ PixelsWritten

----------------------------------------------------------------------------
(* Claims about the backup glyph and construction *)

\* v and u are the same writer, reached by the same steps
SameRun(v, u) ==
    /\ Snapshot(v) = Snapshot(u)
    /\ v.events = u.events
    /\ v.scrolls = u.scrolls
    /\ v.pixels = u.pixels

BackupGlyph ==
    /\ Usable => SameRun(write_char(Self, "?"), write_char(Self, BACKUP_CHAR))
    /\ Printed(<<"?">>) =>
          /\ SameRun([Self EXCEPT !.events = hist.events, !.scrolls = hist.scrolls,
                                  !.pixels = hist.pixels],
                     print(Pre, <<BACKUP_CHAR>>))
          /\ \A k \in 1..Len(Glyphs) : Glyphs[k].ch = BACKUP_CHAR
          /\ ~panicked =>
                /\ Len(Glyphs) = 1
                /\ hist.pixels > 0
                /\ x_pos = Glyphs[1].x + get_raster(BACKUP_CHAR).width + LETTER_SPACING

\* C13: a character with no raster is rendered as the backup glyph: the writer
\* blits the backup raster and moves the cursor exactly as for the backup
\* character itself (same wrap, same scroll, x_pos advanced by the backup
\* raster's width plus LETTER_SPACING); nothing reports the missing glyph.
C13_MissingGlyphIsBackupGlyph == BackupGlyph

C13_Witness ==
    /\ Printed(<<"?">>) /\ ~panicked
    /\ NumEvents("newline") = 1 /\ Len(Glyphs) = 1
    /\ framebuffer # hist.pre.framebuffer

\* C14: right after new(framebuffer, info), whatever the memory held, every
\* byte is zero, the cursor is at (BORDER_PADDING, BORDER_PADDING) and the
\* colour is the normal one.
C14_NewClearsAndHomes ==
    Called("new") =>
        /\ constructed /\ ~panicked
        /\ Len(framebuffer) = Len(hist.pre.framebuffer)
        /\ AllZero(framebuffer)
        /\ x_pos = BORDER_PADDING /\ y_pos = BORDER_PADDING
        /\ current_color = COLOR_WHITE

C14_Witness == Called("new") /\ ~AllZero(hist.pre.framebuffer)

----------------------------------------------------------------------------
(* Claims about the colour *)

\* the colours set by the recognised directives of text, in order, as the
\* interpreter pairs each backslash with the character after it
RECURSIVE Directives(_, _)
Directives(text, i) ==
    IF i >= Len(text) THEN <<>>
    ELSE IF text[i] # Backslash THEN Directives(text, i + 1)
    ELSE IF text[i + 1] = "c" THEN <<COLOR_BLUE>> \o Directives(text, i + 2)
    ELSE IF text[i + 1] = "r" THEN <<COLOR_WHITE>> \o Directives(text, i + 2)
    ELSE Directives(text, i + 2)

ColorChangesOnlyByDirective ==
    /\ constructed => current_color \in {COLOR_WHITE, COLOR_BLUE}
    /\ hist.op \in {"none", "clear", "write_str"} =>
          current_color = hist.pre.current_color
    /\ Called("print") =>
          LET d == Directives(hist.text, 1)
          IN /\ d = <<>> => current_color = hist.pre.current_color
             /\ current_color # hist.pre.current_color =>
                   \E k \in 1..Len(d) : current_color = d[k]
             /\ ~panicked /\ d # <<>> => current_color = d[Len(d)]
    /\ \A k \in 1..Len(hist.scrolls) :
          hist.scrolls[k].pre.current_color = hist.scrolls[k].post.current_color
    /\ \A k \in 1..Len(hist.events) :
          hist.events[k].color \in
              {hist.pre.current_color} \cup
              {Directives(hist.text, 1)[j] : j \in 1..Len(Directives(hist.text, 1))}

\* C15: current_color is always the normal or the accent colour, and it
\* changes only in a print step that processes a recognised directive; glyph
\* rendering, newline, carriage return, scroll, clear and write_str keep it.
C15_ColorChangesOnlyByDirective == ColorChangesOnlyByDirective

C15_Witness ==
    /\ Printed(<<Backslash, "c", "A", Backslash, "r", "B">>)
    /\ hist.pre.current_color = COLOR_BLUE /\ current_color = COLOR_WHITE
    /\ Len(Glyphs) = 2

----------------------------------------------------------------------------
(* Claims about the entry points *)

\* the writer the last call returned, with the steps it took
Run ==
    [Self EXCEPT !.events = hist.events, !.scrolls = hist.scrolls,
                 !.pixels = hist.pixels]

\* the last call changed the framebuffer, the cursor or the colour
Changed ==
    \/ framebuffer # hist.pre.framebuffer
    \/ x_pos # hist.pre.x_pos
    \/ y_pos # hist.pre.y_pos
    \/ current_color # hist.pre.current_color

\* C16 as stated: after construction only print and clear change the
\* framebuffer, the cursor or the colour, and every text that reaches the
\* framebuffer has passed through the escape interpreter.
C16_OnlyPrintAndClear ==
    /\ hist.op # "new" /\ Changed => hist.op \in {"print", "clear"}
    /\ hist.op # "new" /\ hist.pixels > 0 => Called("print")

\* s with every backslash doubled: the text for which print renders s literally
RECURSIVE Doubled(_, _)
Doubled(s, i) ==
    IF i > Len(s) THEN <<>>
    ELSE IF s[i] = Backslash THEN <<Backslash, Backslash>> \o Doubled(s, i + 1)
    ELSE <<s[i]>> \o Doubled(s, i + 1)

\* C16, amended: after construction print, clear and write_str (the fmt::Write
\* implementation, reached through the print! macro) are the operations that
\* change the writer; the text of write_str does not pass through the escape
\* interpreter: write_str renders it literally, as print renders the text with
\* every backslash doubled, and never changes the colour.
C16_PrintClearAndWriteStr ==
    /\ Changed => hist.op \in {"new", "print", "clear", "write_str"}
    /\ hist.pixels > 0 => hist.op \in {"print", "write_str"}
    /\ Called("write_str") =>
          /\ current_color = hist.pre.current_color
          /\ SameRun(Run, print(Pre, Doubled(hist.text, 1)))
          /\ ~panicked =>
                \A i \in 1..Len(hist.text) :
                    hist.text[i] = Backslash =>
                        \E k \in 1..Len(Glyphs) : Glyphs[k].ch = Backslash

C16_Witness ==
    /\ Called("write_str") /\ hist.text = <<Backslash, "c">>
    /\ ~panicked /\ Len(Glyphs) = 2
    /\ hist.pre.current_color = COLOR_WHITE

----------------------------------------------------------------------------
(* Claims about the escape interpreter *)

\* the interpreter as a machine with the two states NORMAL (escaped = FALSE)
\* and ESCAPED, reading text one character at a time from position i
RECURSIVE Interpreter(_, _, _, _)
Interpreter(w, text, i, escaped) ==
    IF i > Len(text) \/ w.panicked THEN w
    ELSE IF ~escaped
    THEN IF text[i] = Backslash
         THEN Interpreter(w, text, i + 1, TRUE)
         ELSE Interpreter(write_char(w, text[i]), text, i + 1, FALSE)
    ELSE Interpreter(
             IF text[i] = "c" THEN [w EXCEPT !.current_color = COLOR_BLUE]
             ELSE IF text[i] = "r" THEN [w EXCEPT !.current_color = COLOR_WHITE]
             ELSE write_char(w, Backslash),
             text, i + 1, FALSE)

GlyphChars == [k \in 1..Len(Glyphs) |-> Glyphs[k].ch]

EscapeMachine ==
    /\ Called("print") => SameRun(Run, Interpreter(Pre, hist.text, 1, FALSE))
    /\ Printed(<<Backslash, Backslash, "c">>) =>
          /\ GlyphChars = <<Backslash, "c">>
          /\ current_color = hist.pre.current_color

\* C17: the escape interpreter has two states; it starts in NORMAL, enters
\* ESCAPED only on a backslash read in NORMAL and is back in NORMAL after
\* exactly one further character, recognised or not, so the character after a
\* directive character is ordinary text or a fresh marker: print of backslash,
\* backslash, c renders one backslash glyph and a literal c and keeps the colour.
C17_EscapeMachine == EscapeMachine

C17_UnlessPanicked == panicked \/ EscapeMachine

\* the run of print is the run of the two-state machine, faults included
C17_SameRunAsMachine ==
    Called("print") => SameRun(Run, Interpreter(Pre, hist.text, 1, FALSE))

\* print(text) ends in ESCAPED: the last character is a backslash that opens
\* an escape
RECURSIVE EndsEscaped(_, _)
EndsEscaped(text, i) ==
    IF i > Len(text) THEN FALSE
    ELSE IF text[i] # Backslash THEN EndsEscaped(text, i + 1)
    ELSE IF i = Len(text) THEN TRUE
    ELSE EndsEscaped(text, i + 2)

TrailingBackslashDropped ==
    /\ Printed(<<Backslash>>) =>
          ~Changed /\ ~panicked /\ hist.events = <<>> /\ hist.pixels = 0
    /\ Called("print") /\ EndsEscaped(hist.text, 1) =>
          SameRun(Run, print(Pre, SubSeq(hist.text, 1, Len(hist.text) - 1)))
    /\ Printed(<<"c">>) =>
          /\ GlyphChars = <<"c">>
          /\ current_color = hist.pre.current_color

\* C19: a backslash that ends the text of print is dropped: no glyph, and
\* framebuffer, cursor and colour as if it were not there; the pending escape
\* does not reach the next call, every print starts in NORMAL: print of "c"
\* after print of a lone backslash renders a literal c and keeps the colour.
C19_TrailingBackslashDropped == TrailingBackslashDropped

C19_UnlessPanicked == panicked \/ TrailingBackslashDropped

----------------------------------------------------------------------------
(* Claims about the cursor and the blit *)

CursorOnScreen ==
    FitsText(info) /\ Consistent(info) /\ constructed =>
        /\ BORDER_PADDING <= x_pos /\ x_pos < width
        /\ BORDER_PADDING <= y_pos /\ y_pos < height
        /\ (y_pos - BORDER_PADDING) % line_height = 0
        \* every scroll_screen call returns, with y_pos still on the screen
        /\ NumEvents("scroll") = Len(hist.scrolls)
        /\ \A k \in 1..Len(hist.scrolls) :
              /\ hist.scrolls[k].pre.y_pos >= line_height
              /\ hist.scrolls[k].post.y_pos >= BORDER_PADDING
        \* every glyph is drawn where it fits vertically
        /\ \A k \in 1..Len(Glyphs) :
              Glyphs[k].y + CHAR_RASTER_HEIGHT + BORDER_PADDING < height
        /\ hist.pixels > 0 /\ panicked =>
              y_pos + CHAR_RASTER_HEIGHT + BORDER_PADDING < height
        /\ ~hist.off_screen /\ ~hist.out_of_buffer

\* C18: on a geometry with room for two text lines and one glyph per line,
\* every reachable state has BORDER_PADDING <= x_pos < width and
\* BORDER_PADDING <= y_pos < height with y_pos - BORDER_PADDING a multiple of
\* the line height; the y_pos decrement of scroll_screen never underflows and
\* one forced scroll is enough for the glyph to fit vertically.
C18_CursorOnScreen == CursorOnScreen

C18_Witness ==
    /\ hist.events # <<>> /\ hist.events[1].kind = "scroll"
    /\ Len(Glyphs) >= 1 /\ ~panicked
    /\ hist.pre.y_pos > y_pos

\* the framebuffer the glyph of the last call was blitted on
BeforeBlit ==
    IF hist.scrolls = <<>> THEN hist.pre.framebuffer
    ELSE hist.scrolls[Len(hist.scrolls)].post.framebuffer

\* where the glyph of the last call was, or was being, blitted
BlitX == IF Glyphs # <<>> THEN Glyphs[1].x ELSE x_pos
BlitY == IF Glyphs # <<>> THEN Glyphs[1].y ELSE y_pos

\* byte j of the framebuffer belongs to the pixel (row, col) of the cell
InPixel(j, row, col) ==
    LET byte_offset == ((BlitY + row) * info.stride + BlitX + col) * info.bytes_per_pixel
    IN j > byte_offset /\ j <= byte_offset + info.bytes_per_pixel

GlyphChar == Printable \cup {Backslash, "?"}

BlitKeepsOtherBytes ==
    \A ch \in GlyphChar :
        Rendered(ch) =>
            \A j \in 1..Len(framebuffer) :
                framebuffer[j] # BeforeBlit[j] =>
                    \E row \in 0..(CHAR_RASTER_HEIGHT - 1) :
                        \E col \in 0..(CHAR_RASTER_WIDTH - 1) :
                            /\ Intensity(get_char_raster(ch).ch, row, col) > 0
                            /\ InPixel(j, row, col)

\* C20: blitting a glyph changes only the bytes of the pixels whose raster
\* intensity is nonzero: the empty pixels of the cell and every pixel outside
\* it keep their content, so a glyph rendered over a drawn cell (after a
\* carriage return) does not erase it.
C20_BlitKeepsOtherBytes == BlitKeepsOtherBytes

\* r rendered over a cell that holds a drawn pixel where r is empty
C20_Witness ==
    /\ Rendered("r") /\ Len(Glyphs) = 1 /\ hist.scrolls = <<>>
    /\ framebuffer # hist.pre.framebuffer
    /\ \E j \in 1..Len(framebuffer) :
          \E row \in 0..(CHAR_RASTER_HEIGHT - 1) :
              \E col \in 0..(CHAR_RASTER_WIDTH - 1) :
                  /\ Intensity("r", row, col) = 0
                  /\ InPixel(j, row, col)
                  /\ hist.pre.framebuffer[j] # 0
                  /\ framebuffer[j] = hist.pre.framebuffer[j]

====
